---------------------------- MODULE Spec2Model ----------------------------
(***************************************************************************)
(* Model of the video-archiver server (src/src/main.rs): the four request  *)
(* handlers (upload, archive listing, stream, delete) running as           *)
(* concurrent tasks over one shared directory, ./archive.                  *)
(*                                                                         *)
(* The file system is modelled at the level the handlers can observe: a    *)
(* directory that maps names to files, files that keep their content while *)
(* a handle is open even after their name was removed, and handles that    *)
(* each carry their own offset.  Every .await of a handler is a step of    *)
(* its own, so that the tasks interleave where the code can be suspended.  *)
(* file.write_all(..).await is taken to have written the chunk when it     *)
(* returns.                                                                *)
(***************************************************************************)
EXTENDS Integers, Sequences, FiniteSets, TLC

\* ------------------------------------------------------------------ bounds
NReq == 2          \* requests the server receives, each served by a task of its own
MaxFields == 2     \* fields of one multipart upload
MaxChunks == 2     \* chunks of one field
MaxChunkLen == 1   \* bytes of one chunk
StreamCap == 2     \* bytes one read of the stream body returns at most

Reqs == 1 .. NReq
Names == {"a", "b"}            \* plain entry names of ./archive
BadName == "sub/x"             \* a client name whose parent directory is missing
NoName == "<none>"             \* field.file_name() is None
FileNames == Names \cup {BadName}
RawName == "raw"               \* an entry whose name is not UTF-8: no client name
EntryNames == Names \cup {RawName}
Absent == << -1 >>             \* no content: the name has no file
InitContents == {<<91, 92, 93>>}   \* what a file holds before the server starts
Ids == 1 .. (Cardinality(EntryNames) + NReq)

\* The handlers never look at the bytes they move.  A byte of an upload is
\* therefore modelled by a value that tells which task received it and where
\* in its field it stood: bytes lost, repeated, reordered or mixed between
\* uploads all show in a file's content.  0 is the fill of a hole.
Tag(r, pos) == (r - 1) * (MaxChunks * MaxChunkLen) + pos

\* the chunk of len bytes that task r receives after pos bytes of the field
Chunk(r, pos, len) == [i \in 1 .. len |-> Tag(r, pos + i)]

VARIABLES
    dirExists,   \* ./archive exists
    dir,         \* name -> file id, 0 when the name is not an entry
    inode,       \* file id -> content
    req,         \* task -> the handler's local state and its response
    obs,         \* task -> history of what the task has done and met
    deleted      \* names removed by a Delete that returned 200, not created since

vars == <<dirExists, dir, inode, req, obs, deleted>>

\* ------------------------------------------------------------ file system
Take(s, n) == IF n >= Len(s) THEN s ELSE SubSeq(s, 1, n)

Drop(s, n) == IF n >= Len(s) THEN << >> ELSE SubSeq(s, n + 1, Len(s))

Max(a, b) == IF a >= b THEN a ELSE b
Min(a, b) == IF a <= b THEN a ELSE b

\* FilePath::new("./archive/<n>").exists()
Exists(n) == dirExists /\ n \in Names /\ dir[n] # 0

\* the content stored under name n
Content(n) == inode[dir[n]]

\* (mutant) every write lands at the start of the file
WriteAtStart(old, off, c) ==
    [i \in 1 .. Max(Len(old), Len(c)) |-> IF i <= Len(c) THEN c[i] ELSE old[i]]

\* (mutant) every chunk is put before what the file holds: the order is reversed
WriteAtFront(old, off, c) == c \o old

\* (mutant) the file is opened for appending: every write lands at its end
WriteAtEnd(old, off, c) == old \o c

\* the bytes of a file after a handle at offset off wrote chunk c; no byte
\* written leaves the file as it is, also past its end
WriteAt(old, off, c) ==
    IF c = << >> THEN old
    ELSE [i \in 1 .. Max(Len(old), off + Len(c)) |->
             IF i > off /\ i <= off + Len(c) THEN c[i - off]
             ELSE IF i <= Len(old) THEN old[i] ELSE 0]

Referenced(d, rq) == {d[n] : n \in EntryNames} \cup {rq[r].fh : r \in Reqs}

\* a file whose name is gone and that no handle holds is gone
Gc(d, rq, ino) == [i \in Ids |-> IF i \in Referenced(d, rq) THEN ino[i] ELSE << >>]

FreeId == CHOOSE i \in Ids : i \notin Referenced(dir, req)
                              /\ \A j \in Ids : j \notin Referenced(dir, req) => i <= j

\* ------------------------------------------------------------------ tasks
\* name: the file name of the request or of the current field; fh, off: the open
\* file and the handle's offset; may, must: the open directory stream (entries it
\* can still return, entries it has to); status, body: the response
Idle == [kind |-> "idle", pc |-> "idle", name |-> NoName, fh |-> 0, off |-> 0,
         may |-> {}, must |-> {}, status |-> "none", body |-> << >>]

\* exp: the bytes the task received for each name it created (Absent: none);
\* nf, nch: fields begun, chunks of the current field; err: the call that failed;
\* inj: the failure came from the environment (disk, permissions), not from the
\* state of ./archive or the request; touched: names other tasks changed since
\* the task began; after: tasks that had ended when it began; gone: names of
\* `deleted' at its start and not created since; chk: its existence check passed
\* (a list: ./archive was there before its create_dir_all);
\* ever, stay: entries of ./archive at some time, at all times, since the task's
\* read_dir; last: names on which the task's write or removal is the latest
IdleObs == [exp |-> [n \in Names |-> Absent], nf |-> 0, nch |-> 0, err |-> "none",
            inj |-> FALSE, touched |-> {}, after |-> {}, gone |-> {}, chk |-> FALSE,
            ever |-> {}, stay |-> {}, last |-> {}]

StartObs(r, ns) == [IdleObs EXCEPT !.after = {q \in Reqs \ {r} : req[q].pc = "done"},
                                   !.gone = deleted \cap ns]

\* the names task q is about: those it created (an upload), the one it was given
\* (a stream, a delete), every name (a list)
Concerns(o, q, n) == \/ o[q].exp[n] # Absent
                     \/ req[q].kind \in {"stream", "delete"} /\ req[q].name = n
                     \/ req[q].kind = "list"

\* task r changed the file named n: every other task that n concerns notes it
Touch(o, r, n) ==
    [q \in Reqs |-> IF q # r /\ Concerns(o, q, n)
                    THEN [o[q] EXCEPT !.touched = @ \cup {n}] ELSE o[q]]

\* name n was created: it no longer counts as gone for anyone, and it was an
\* entry during every enumeration under way
Created(o, n) == [q \in Reqs |-> [o[q] EXCEPT !.gone = @ \ {n},
                      !.ever = IF req[q].pc = "next_entry" THEN @ \cup {n} ELSE @]]

\* name n was removed: it was not an entry at all times of any enumeration
Removed(o, n) == [q \in Reqs |-> [o[q] EXCEPT
                      !.stay = IF req[q].pc = "next_entry" THEN @ \ {n} ELSE @]]

\* a write or a removal of task r landed on name n
Landed(o, r, n) == [q \in Reqs |-> [o[q] EXCEPT !.last = IF q = r THEN @ \cup {n}
                                                                  ELSE @ \ {n}]]

\* one task per request; the tasks are interchangeable, so a new request takes
\* the first free one
CanStart(r) == req[r].pc = "idle" /\ \A q \in Reqs : q < r => req[q].pc # "idle"

Finish(rec, st) == [rec EXCEPT !.pc = "done", !.status = st, !.fh = 0, !.off = 0]

\* ./archive as the server finds it: absent, or holding files of earlier runs
\* under some of the names in ns
InitWith(ns) ==
    /\ dirExists \in BOOLEAN
    /\ \E f \in [EntryNames -> InitContents \cup {Absent}] :
         /\ dirExists = FALSE => \A n \in EntryNames : f[n] = Absent
         /\ \A n \in EntryNames \ ns : f[n] = Absent
         /\ dir = [n \in EntryNames |-> IF f[n] = Absent THEN 0
                                        ELSE IF n = "a" THEN 1
                                        ELSE IF n = "b" THEN 2 ELSE 3]
         /\ inode = [i \in Ids |-> IF i = 1 /\ f["a"] # Absent THEN f["a"]
                                   ELSE IF i = 2 /\ f["b"] # Absent THEN f["b"]
                                   ELSE IF i = 3 /\ f[RawName] # Absent THEN f[RawName]
                                   ELSE << >>]
    /\ req = [r \in Reqs |-> Idle]
    /\ obs = [r \in Reqs |-> IdleObs]
    /\ deleted = {}

\* every file of ./archive was put there by a client of the server
Init == InitWith(Names)

\* ./archive may also hold a file that was put there by other means
InitRaw == InitWith(EntryNames)


\* what open directory streams see of a change of ./archive: whether they still
\* return an entry removed, or return one added, after read_dir is unspecified
DirAdded(rq, n) == [q \in Reqs |-> IF rq[q].pc = "next_entry" /\ n \notin
                                      {rq[q].body[i] : i \in 1 .. Len(rq[q].body)}
                                   THEN [rq[q] EXCEPT !.may = @ \cup {n}] ELSE rq[q]]
DirRemoved(rq, n) == [q \in Reqs |-> [rq[q] EXCEPT !.must = @ \ {n}]]

\* ----------------------------------------------------------------- upload
\* (mutant) the file is opened for writing without truncation
TruncateKeeps(old) == old

\* File::create on an existing file truncates it
Truncate(old) == << >>

\* (mutant) the file is made, but not under its name in ./archive
CreateEntryElsewhere(d, n, id) == d

\* File::create makes n an entry of ./archive (of the file it had, if any)
CreateEntry(d, n, id) == [d EXCEPT ![n] = id]

\* (mutant) a field without a file name ends the upload as a success
MissingFileNameOk == "OK"

\* Err(anyhow!("Missing file name")), mapped by video_upload_handler
MissingFileName == "INTERNAL_SERVER_ERROR"

\* video_upload, up to its first .await: the check of ./archive
UploadStart(r) ==
    /\ CanStart(r)
    /\ req' = [req EXCEPT ![r] = [Idle EXCEPT !.kind = "upload",
                    !.pc = IF dirExists THEN "next_field" ELSE "create_dir"]]
    /\ obs' = [obs EXCEPT ![r] = StartObs(r, {})]
    /\ UNCHANGED <<dirExists, dir, inode, deleted>>

\* tokio::fs::create_dir("./archive").await.expect(..)
UploadCreateDir(r) ==
    /\ req[r].kind = "upload" /\ req[r].pc = "create_dir"
    /\ \E ok \in BOOLEAN :
         IF ok /\ ~dirExists
         THEN /\ dirExists' = TRUE
              /\ req' = [req EXCEPT ![r].pc = "next_field"]
              /\ obs' = obs
         ELSE /\ dirExists' = dirExists
              /\ req' = [req EXCEPT ![r] = Finish(@, "panic")]
              /\ obs' = [obs EXCEPT ![r].err = "create_dir", ![r].inj = ~dirExists]
    /\ UNCHANGED <<dir, inode, deleted>>

\* multipart.next_field().await? and field.file_name().ok_or_else(..)?
UploadNextField(r) ==
    /\ req[r].kind = "upload" /\ req[r].pc = "next_field"
    /\ \/ /\ req' = [req EXCEPT ![r] = Finish(@, "OK")]
          /\ obs' = obs
       \/ /\ req' = [req EXCEPT ![r] = Finish(@, "INTERNAL_SERVER_ERROR")]
          /\ obs' = [obs EXCEPT ![r].err = "multipart"]
       \/ /\ req' = [req EXCEPT ![r] = Finish(@, MissingFileName)]
          /\ obs' = [obs EXCEPT ![r].err = "noname"]
       \/ /\ obs[r].nf < MaxFields
          /\ \E n \in FileNames : req' = [req EXCEPT ![r].pc = "create", ![r].name = n]
          /\ obs' = obs
    /\ UNCHANGED <<dirExists, dir, inode, deleted>>

\* save_file: File::create(file_path).await?, and the .expect(..) on its result
UploadCreate(r) ==
    /\ req[r].kind = "upload" /\ req[r].pc = "create"
    /\ LET n == req[r].name IN
       \E ok \in BOOLEAN :
         IF ok /\ dirExists /\ n \in Names
         THEN LET id == IF dir[n] # 0 THEN dir[n] ELSE FreeId
                  rq == [req EXCEPT ![r].pc = "chunk", ![r].fh = id, ![r].off = 0]
              IN /\ dir' = CreateEntry(dir, n, id)
                 /\ inode' = [inode EXCEPT ![id] = Truncate(@)]
                 /\ req' = IF dir[n] # 0 THEN rq ELSE DirAdded(rq, n)
                 /\ obs' = Created(Touch([obs EXCEPT ![r].exp[n] = << >>,
                                                     ![r].nf = @ + 1,
                                                     ![r].nch = 0], r, n), n)
                 /\ deleted' = deleted \ {n}
         ELSE /\ req' = [req EXCEPT ![r] = Finish(@, "panic")]
              /\ obs' = [obs EXCEPT ![r].err = "create", ![r].inj = (dirExists /\ n \in Names)]
              /\ UNCHANGED <<dir, inode, deleted>>
    /\ UNCHANGED dirExists

\* (mutant) a guard on the handle removes the unfinished file when it is dropped
DroppedRemoves(d, n) == [d EXCEPT ![n] = 0]

\* ./archive after save_file ended early on name n: the File is dropped, which
\* closes the handle and nothing else
Dropped(d, n) == d

\* save_file: one turn of  while let Some(chunk) = field.chunk().await? {
\*                             file.write_all(&chunk).await?; }
UploadChunk(r) ==
    /\ req[r].kind = "upload" /\ req[r].pc = "chunk"
    /\ LET n == req[r].name
           id == req[r].fh
       IN \/ \* None: the field is complete, save_file returns Ok and drops the file
             LET rq == [req EXCEPT ![r].pc = "next_field", ![r].fh = 0, ![r].off = 0] IN
             /\ req' = rq
             /\ dir' = dir
             /\ inode' = Gc(dir, rq, inode)
             /\ obs' = obs
          \/ \* Err from the multipart stream: save_file returns Err, .expect panics
             LET rq == [req EXCEPT ![r] = Finish(@, "panic")] IN
             /\ req' = rq
             /\ dir' = Dropped(dir, n)
             /\ inode' = Gc(dir', rq, inode)
             /\ obs' = [obs EXCEPT ![r].err = "chunk"]
          \/ \* Some(chunk), written whole
             /\ obs[r].nch < MaxChunks
             /\ \E len \in 1 .. MaxChunkLen :
                  LET c == Chunk(r, Len(obs[r].exp[n]), len) IN
                  /\ inode' = [inode EXCEPT ![id] = WriteAt(@, req[r].off, c)]
                  /\ dir' = dir
                  /\ req' = [req EXCEPT ![r].off = @ + Len(c)]
                  /\ obs' = Landed(Touch([obs EXCEPT ![r].exp[n] = @ \o c,
                                                     ![r].nch = @ + 1], r, n), r, n)
          \/ \* Some(chunk), and write_all fails after j of its bytes
             /\ obs[r].nch < MaxChunks
             /\ \E len \in 1 .. MaxChunkLen : \E j \in 0 .. len - 1 :
                  LET c == Chunk(r, Len(obs[r].exp[n]), len)
                      rq == [req EXCEPT ![r] = Finish(@, "panic")]
                      o == Touch([obs EXCEPT ![r].err = "write", ![r].inj = TRUE,
                                             ![r].exp[n] = @ \o Take(c, j)], r, n) IN
                  /\ req' = rq
                  /\ dir' = Dropped(dir, n)
                  /\ inode' = Gc(dir', rq, [inode EXCEPT ![id] =
                                              WriteAt(@, req[r].off, Take(c, j))])
                  /\ obs' = IF j > 0 THEN Landed(o, r, n) ELSE o
    /\ UNCHANGED <<dirExists, deleted>>

\* the client goes away while the server waits for more of the body, at
\* next_field().await or at field.chunk().await: the handler's future is dropped
\* where it stands and no response is sent
UploadCancel(r) ==
    /\ req[r].kind = "upload" /\ req[r].pc \in {"next_field", "chunk"}
    /\ LET rq == [req EXCEPT ![r] = Finish(@, "dropped")] IN
       /\ req' = rq
       /\ dir' = IF req[r].pc = "chunk" THEN Dropped(dir, req[r].name) ELSE dir
       /\ inode' = Gc(dir', rq, inode)
    /\ obs' = [obs EXCEPT ![r].err = "cancel"]
    /\ UNCHANGED <<dirExists, deleted>>

\* ----------------------------------------------------------------- stream
\* video_stream_handler: the existence check
StreamStart(r) ==
    /\ CanStart(r)
    /\ \E n \in FileNames :
         /\ req' = [req EXCEPT ![r] =
                IF Exists(n)
                THEN [Idle EXCEPT !.kind = "stream", !.pc = "open", !.name = n]
                ELSE Finish([Idle EXCEPT !.kind = "stream", !.name = n], "NOT_FOUND")]
         /\ obs' = [obs EXCEPT ![r] = [StartObs(r, {n}) EXCEPT !.chk = Exists(n)]]
    /\ UNCHANGED <<dirExists, dir, inode, deleted>>

\* (mutant) the open's error is unwrapped
OpenFailedPanics == "panic"

\* .map_err(|_| StatusCode::INTERNAL_SERVER_ERROR)?
OpenFailed == "INTERNAL_SERVER_ERROR"

\* File::open(file_path).await.map_err(|_| INTERNAL_SERVER_ERROR)?, and Ok((headers, body))
StreamOpen(r) ==
    /\ req[r].kind = "stream" /\ req[r].pc = "open"
    /\ LET n == req[r].name IN
       \E ok \in BOOLEAN :
         IF ok /\ Exists(n)
         THEN /\ req' = [req EXCEPT ![r].pc = "body", ![r].fh = dir[n], ![r].off = 0,
                                    ![r].status = "OK"]
              /\ obs' = obs
         ELSE /\ req' = [req EXCEPT ![r] = Finish(@, OpenFailed)]
              /\ obs' = [obs EXCEPT ![r].err = "open", ![r].inj = Exists(n)]
    /\ UNCHANGED <<dirExists, dir, inode, deleted>>

\* StreamBody::new(ReaderStream::new(file)): one read of the body
StreamRead(r) ==
    /\ req[r].kind = "stream" /\ req[r].pc = "body"
    /\ LET rest == Drop(inode[req[r].fh], req[r].off) IN
       \/ \* end of file: the body is complete and the file is closed
          /\ rest = << >>
          /\ LET rq == [req EXCEPT ![r] = Finish(@, "OK")] IN
             /\ req' = rq
             /\ inode' = Gc(dir, rq, inode)
          /\ obs' = obs
       \/ \* the next chunk: at most StreamCap bytes from the handle's offset
          /\ rest # << >>
          /\ \E k \in 1 .. Min(StreamCap, Len(rest)) :
               req' = [req EXCEPT ![r].body = @ \o Take(rest, k), ![r].off = @ + k]
          /\ UNCHANGED <<inode, obs>>
       \/ \* the read fails: the body ends where it is
          /\ LET rq == [req EXCEPT ![r] = Finish(@, "OK")] IN
             /\ req' = rq
             /\ inode' = Gc(dir, rq, inode)
          /\ obs' = [obs EXCEPT ![r].err = "read", ![r].inj = TRUE]
    /\ UNCHANGED <<dirExists, dir, deleted>>

\* ------------------------------------------------------------------- list
\* (mutant) the test of into_string's result is inverted: no name is pushed
IntoStringNever(n) == << >>

\* if let Ok(file_name) = entry.file_name().into_string(): the names pushed for
\* an entry; a String holds UTF-8 only, and every name a client gives is a &str
IntoString(n) == IF n \in FileNames THEN <<n>> ELSE << >>

\* (mutant) the entries are read with `if let', not `while let': the loop may
\* end with entries unread
EndOfDirEarly(must) == TRUE

\* next_entry returns None when the directory stream has no entry left
EndOfDir(must) == must = {}

\* archive_handler: std::fs::create_dir_all("./archive").expect(..)
ListStart(r) ==
    /\ CanStart(r)
    /\ \E ok \in BOOLEAN :
         IF ok
         THEN /\ dirExists' = TRUE
              /\ req' = [req EXCEPT ![r] = [Idle EXCEPT !.kind = "list", !.pc = "read_dir"]]
              /\ obs' = [obs EXCEPT ![r] = [StartObs(r, Names) EXCEPT !.chk = dirExists]]
         ELSE /\ dirExists' = dirExists
              /\ req' = [req EXCEPT ![r] = Finish([Idle EXCEPT !.kind = "list"], "panic")]
              /\ obs' = [obs EXCEPT ![r] = [StartObs(r, Names) EXCEPT
                                              !.err = "create_dir_all", !.inj = TRUE]]
    /\ UNCHANGED <<dir, inode, deleted>>

\* read_dir("./archive").await
ListReadDir(r) ==
    /\ req[r].kind = "list" /\ req[r].pc = "read_dir"
    /\ \E ok \in BOOLEAN :
         IF ok /\ dirExists
         THEN LET present == {n \in EntryNames : dir[n] # 0} IN
              /\ req' = [req EXCEPT ![r].pc = "next_entry", ![r].may = present,
                                    ![r].must = present]
              /\ obs' = [obs EXCEPT ![r].ever = present, ![r].stay = present]
         ELSE /\ req' = [req EXCEPT ![r] = Finish(@, "INTERNAL_SERVER_ERROR")]
              /\ obs' = [obs EXCEPT ![r].err = "read_dir", ![r].inj = TRUE]
    /\ UNCHANGED <<dirExists, dir, inode, deleted>>

\* one turn of  while let Some(entry) = entries.next_entry().await.unwrap()
ListNextEntry(r) ==
    /\ req[r].kind = "list" /\ req[r].pc = "next_entry"
    /\ \/ \* Some(entry): an entry not yet returned
          /\ \E n \in req[r].may :
               req' = [req EXCEPT ![r].may = @ \ {n}, ![r].must = @ \ {n},
                                  ![r].body = @ \o IntoString(n)]
          /\ obs' = obs
       \/ \* None: every entry the stream has to return was returned
          /\ EndOfDir(req[r].must)
          /\ req' = [req EXCEPT ![r] = [Finish(@, "OK") EXCEPT !.may = {}, !.must = {}]]
          /\ obs' = obs
       \/ \* Err: .unwrap() panics
          /\ req' = [req EXCEPT ![r] = [Finish(@, "panic") EXCEPT !.may = {}, !.must = {}]]
          /\ obs' = [obs EXCEPT ![r].err = "next_entry", ![r].inj = TRUE]
    /\ UNCHANGED <<dirExists, dir, inode, deleted>>

\* ----------------------------------------------------------------- delete
\* (mutant) a name that is not stored is reported deleted
DeleteMissingOk == "OK"

\* if !FilePath::new(&file_path).exists() { return Err(StatusCode::NOT_FOUND) }
DeleteMissing == "NOT_FOUND"

\* delete_file_handler: the existence check
DeleteStart(r) ==
    /\ CanStart(r)
    /\ \E n \in FileNames :
         /\ req' = [req EXCEPT ![r] =
                IF Exists(n)
                THEN [Idle EXCEPT !.kind = "delete", !.pc = "remove", !.name = n]
                ELSE Finish([Idle EXCEPT !.kind = "delete", !.name = n], DeleteMissing)]
         /\ obs' = [obs EXCEPT ![r] = [StartObs(r, {n}) EXCEPT !.chk = Exists(n)]]
    /\ UNCHANGED <<dirExists, dir, inode, deleted>>

\* (mutant) the removal reports success and removes nothing
UnlinkNothing(d, n) == d

\* (mutant) the removal empties the directory
UnlinkAll(d, n) == [m \in DOMAIN d |-> 0]

\* remove_file: the name is no longer an entry
Unlink(d, n) == [d EXCEPT ![n] = 0]

\* (mutant) the result of remove_file is not looked at
RemoveFailedOk == "OK"

\* Err(_) => Err(StatusCode::INTERNAL_SERVER_ERROR)
RemoveFailed == "INTERNAL_SERVER_ERROR"

\* match remove_file(&file_path).await
DeleteRemove(r) ==
    /\ req[r].kind = "delete" /\ req[r].pc = "remove"
    /\ LET n == req[r].name IN
       \E ok \in BOOLEAN :
         IF ok /\ Exists(n)
         THEN LET rq == DirRemoved([req EXCEPT ![r] = Finish(@, "OK")], n)
                  d == Unlink(dir, n)
              IN /\ req' = rq
                 /\ dir' = d
                 /\ inode' = Gc(d, rq, inode)
                 /\ obs' = Landed(Removed(Touch(obs, r, n), n), r, n)
                 /\ deleted' = deleted \cup {n}
         ELSE /\ req' = [req EXCEPT ![r] = Finish(@, RemoveFailed)]
              /\ obs' = [obs EXCEPT ![r].err = "remove", ![r].inj = Exists(n)]
              /\ UNCHANGED <<dir, inode, deleted>>
    /\ UNCHANGED dirExists

Next ==
    \E r \in Reqs :
        \/ UploadStart(r)
        \/ UploadCreateDir(r)
        \/ UploadNextField(r)
        \/ UploadCreate(r)
        \/ UploadChunk(r)
        \/ StreamStart(r)
        \/ StreamOpen(r)
        \/ StreamRead(r)
        \/ ListStart(r)
        \/ ListReadDir(r)
        \/ ListNextEntry(r)
        \/ DeleteStart(r)
        \/ DeleteRemove(r)

Spec == Init /\ [][Next]_vars

\* the same server with clients that can abandon an Upload
NextCancel == Next \/ \E r \in Reqs : UploadCancel(r)
SpecCancel == Init /\ [][NextCancel]_vars

\* the same server over a directory that can hold a file no client stored
SpecRaw == InitRaw /\ [][Next]_vars

\* ----------------------------------------------------------------- claims
IsDone(r, k) == req[r].kind = k /\ req[r].pc = "done"
Returned(r, k, st) == IsDone(r, k) /\ req[r].status = st
Wrote(u) == {n \in Names : obs[u].exp[n] # Absent}
Listed(l) == {req[l].body[i] : i \in 1 .. Len(req[l].body)}
\* n holds what upload u received for it
Holds(u, n) == Exists(n) /\ Content(n) = obs[u].exp[n]
\* the request itself was sound: a body that parses, every field with a file
\* name that can be created in ./archive
WellFormed(u) == /\ obs[u].err \notin {"multipart", "noname", "chunk"}
                 /\ ~(obs[u].err = "create" /\ ~obs[u].inj)

\* C1: round trip.  When an Upload with a field named n returned 200, no other
\* request has changed n since, and a Stream of n that began after it has ended
\* (without the environment failing its open or a read), the Stream returned 200
\* and its body is, byte for byte, what the Upload received for n.
C1_RoundTrip ==
    \A u \in Reqs, s \in Reqs : \A n \in Names :
        ( /\ Returned(u, "upload", "OK") /\ n \in Wrote(u) /\ n \notin obs[u].touched
          /\ IsDone(s, "stream") /\ req[s].name = n /\ u \in obs[s].after
          /\ ~obs[s].inj )
        => req[s].status = "OK" /\ req[s].body = obs[u].exp[n]

C1_Witness ==
    \E u \in Reqs, s \in Reqs : \E n \in Names :
        /\ Returned(u, "upload", "OK") /\ n \in Wrote(u) /\ n \notin obs[u].touched
        /\ Returned(s, "stream", "OK") /\ req[s].name = n /\ u \in obs[s].after
        /\ ~obs[s].inj
        /\ Len(obs[u].exp[n]) = MaxChunks * MaxChunkLen
        /\ req[s].body = obs[u].exp[n]

\* C2: two Uploads of distinct file names, both sound and neither failed by the
\* environment, both return 200 and leave each name holding its own content,
\* whatever ./archive was at the start.
C2_ConcurrentUploads ==
    \A u \in Reqs, v \in Reqs :
        ( /\ u # v /\ IsDone(u, "upload") /\ IsDone(v, "upload")
          /\ WellFormed(u) /\ WellFormed(v) /\ ~obs[u].inj /\ ~obs[v].inj
          /\ Wrote(u) \cap Wrote(v) = {} )
        => /\ req[u].status = "OK" /\ req[v].status = "OK"
           /\ \A n \in Wrote(u) : Holds(u, n)
           /\ \A n \in Wrote(v) : Holds(v, n)

\* C3: an Upload whose File::create or write_all failed ends with a 500
\* response.
C3_WriteFailureIs500 ==
    \A u \in Reqs :
        (IsDone(u, "upload") /\ obs[u].err \in {"create", "write"})
        => req[u].status = "INTERNAL_SERVER_ERROR"

\* C4: a request in which a file-system call failed (create, open, write,
\* enumerate, remove, directory creation) ends with an HTTP status response.
C4_FailuresEndWithStatus ==
    \A r \in Reqs :
        ( /\ req[r].pc = "done"
          /\ obs[r].err \in {"create", "open", "write", "read_dir", "next_entry",
                              "remove", "create_dir", "create_dir_all"} )
        => req[r].status \in {"NOT_FOUND", "INTERNAL_SERVER_ERROR"}

\* C5: deletion effect.  A name removed by a Delete that returned 200 and not
\* created again since is not an entry of ./archive; a List that began while it
\* was so, and ended before any Upload created it again, omits it; a Stream of
\* it begun in that time returns 404.
C5_DeletionEffect ==
    /\ \A n \in deleted : ~Exists(n)
    /\ \A l \in Reqs : Returned(l, "list", "OK") => obs[l].gone \cap Listed(l) = {}
    /\ \A s \in Reqs : (IsDone(s, "stream") /\ req[s].name \in obs[s].gone)
                           => req[s].status = "NOT_FOUND"

C5_Witness ==
    \E d \in Reqs, l \in Reqs :
        /\ Returned(d, "delete", "OK") /\ Returned(l, "list", "OK")
        /\ d \in obs[l].after /\ req[d].name \in obs[l].gone
        /\ Listed(l) # {}

\* C6: a Delete of a name that is not stored returns 404 and leaves ./archive
\* as it was; a Delete of a stored name returns 200 (unless the environment
\* fails the removal or another request changes the name meanwhile), and a
\* Delete of the same name that begins after it, with no Upload of the name in
\* between, returns 404.
C6_DeleteStatuses ==
    \A d \in Reqs :
        /\ (IsDone(d, "delete") /\ ~obs[d].chk) => req[d].status = "NOT_FOUND"
        /\ (IsDone(d, "delete") /\ obs[d].chk /\ ~obs[d].inj
                /\ req[d].name \notin obs[d].touched) => req[d].status = "OK"
        /\ \A e \in Reqs :
              ( /\ Returned(d, "delete", "OK") /\ IsDone(e, "delete")
                /\ d \in obs[e].after /\ req[e].name = req[d].name
                /\ req[d].name \notin obs[d].touched )
              => req[e].status = "NOT_FOUND"

C6_NotFoundChangesNothing ==
    \A d \in Reqs :
        (req[d].pc = "idle" /\ Returned(d, "delete", "NOT_FOUND")')
        => UNCHANGED <<dirExists, dir, inode>>

C6_Delete == [](C6_DeleteStatuses) /\ [][C6_NotFoundChangesNothing]_vars

C6_Witness ==
    \E d \in Reqs, e \in Reqs :
        /\ Returned(d, "delete", "OK") /\ Returned(e, "delete", "NOT_FOUND")
        /\ d \in obs[e].after /\ req[e].name = req[d].name
        /\ \E n \in Names : Exists(n)

\* C7: a Stream whose existence check failed returns 404 with an empty body;
\* one whose check passed and whose open then failed returns 500, with no
\* body, and does not panic; a Stream has status 200 only when its check
\* passed and its open succeeded.
C7_StreamStatuses ==
    \A s \in Reqs : req[s].kind = "stream" =>
        /\ (req[s].pc = "done" /\ ~obs[s].chk)
              => req[s].status = "NOT_FOUND" /\ req[s].body = << >>
        /\ (req[s].pc = "done" /\ obs[s].err = "open")
              => req[s].status = "INTERNAL_SERVER_ERROR" /\ req[s].body = << >>
        /\ req[s].status = "OK" => obs[s].chk /\ obs[s].err # "open"
        /\ req[s].pc = "open" => req[s].status = "none" /\ req[s].body = << >>
        /\ req[s].status # "panic"

\* the open failed because a Delete removed the name after the check
C7_Witness ==
    \E s \in Reqs, d \in Reqs :
        /\ Returned(s, "stream", "INTERNAL_SERVER_ERROR")
        /\ obs[s].chk /\ obs[s].err = "open" /\ ~obs[s].inj
        /\ Returned(d, "delete", "OK") /\ req[d].name = req[s].name

\* C8: an Upload that met a field without a file name returns 500; every
\* field before it was written whole (a name no other request changed holds
\* what the Upload received for it, the last field of that name when it came
\* twice), the Upload holds no open file, and it creates and writes nothing
\* after that.
C8_MissingNameState ==
    \A u \in Reqs : (req[u].kind = "upload" /\ obs[u].err = "noname") =>
        /\ req[u].pc = "done" /\ req[u].status = "INTERNAL_SERVER_ERROR"
        /\ req[u].fh = 0
        /\ Cardinality(Wrote(u)) <= obs[u].nf
        /\ \A n \in Wrote(u) : n \notin obs[u].touched => Holds(u, n)

C8_MissingNameStops ==
    \A u \in Reqs : (req[u].kind = "upload" /\ obs[u].err = "noname") =>
        req'[u] = req[u] /\ obs'[u].exp = obs[u].exp /\ obs'[u].nf = obs[u].nf

C8_MissingName == [](C8_MissingNameState) /\ [][C8_MissingNameStops]_vars

C8_Witness ==
    \E u \in Reqs : \E n \in Names :
        /\ Returned(u, "upload", "INTERNAL_SERVER_ERROR") /\ obs[u].err = "noname"
        /\ obs[u].nf = MaxFields /\ n \in Wrote(u)
        /\ Len(obs[u].exp[n]) >= 1 /\ Holds(u, n)

\* C9: re-upload overwrites.  When an Upload with a field named n returned 200
\* and no other request has changed n since the Upload created it, n holds
\* exactly what this Upload received for it, whatever n held before (nothing
\* of a longer earlier content survives); a List that began after the Upload
\* returned names n exactly once.
C9_Overwrite ==
    \A u \in Reqs : \A n \in Names :
        (Returned(u, "upload", "OK") /\ n \in Wrote(u) /\ n \notin obs[u].touched)
        => /\ Holds(u, n)
           /\ \A l \in Reqs : (Returned(l, "list", "OK") /\ u \in obs[l].after)
                 => Cardinality({i \in 1 .. Len(req[l].body) : req[l].body[i] = n}) = 1

\* the second of two Uploads of n, in sequence, brought the shorter content
C9_Witness ==
    \E u \in Reqs, v \in Reqs : \E n \in Names :
        /\ Returned(u, "upload", "OK") /\ Returned(v, "upload", "OK")
        /\ u \in obs[v].after /\ n \in Wrote(u) /\ n \in Wrote(v)
        /\ Len(obs[v].exp[n]) < Len(obs[u].exp[n])
        /\ n \notin obs[v].touched /\ Holds(v, n)

\* C10: an Upload that returned 200 and whose field named n brought no chunk
\* leaves n stored as a file of zero bytes (unless another request changed n
\* since): a List that began after it names n, and a Stream of n that began
\* after it (and that the environment did not fail) returns 200 with an empty
\* body.
C10_EmptyField ==
    \A u \in Reqs : \A n \in Names :
        ( /\ Returned(u, "upload", "OK") /\ n \in Wrote(u) /\ obs[u].exp[n] = << >>
          /\ n \notin obs[u].touched )
        => /\ Exists(n) /\ Len(Content(n)) = 0
           /\ \A r \in Reqs : u \in obs[r].after =>
                /\ Returned(r, "list", "OK") => n \in Listed(r)
                /\ (IsDone(r, "stream") /\ req[r].name = n /\ ~obs[r].inj)
                      => req[r].status = "OK" /\ Len(req[r].body) = 0

\* the Upload's only field brought no chunk, and a List after it names the file
C10_Witness ==
    \E u \in Reqs, l \in Reqs : \E n \in Names :
        /\ Returned(u, "upload", "OK") /\ obs[u].exp[n] = << >>
        /\ obs[u].nf = 1 /\ obs[u].nch = 0
        /\ Returned(l, "list", "OK") /\ u \in obs[l].after /\ n \in Listed(l)

\* C11: listing completeness.  When a List returned 200, every name in its answer
\* was an entry of ./archive at some time of its enumeration, every entry that
\* stood there during the whole enumeration under a name a client can have
\* stored is in the answer, and no name is reported twice; with no entry added or
\* removed meanwhile the answer is exactly the client-storable entries.
C11_ListIsDirectory ==
    \A l \in Reqs : Returned(l, "list", "OK") =>
        /\ Listed(l) \subseteq obs[l].ever
        /\ obs[l].stay \cap FileNames \subseteq Listed(l)
        /\ Cardinality(Listed(l)) = Len(req[l].body)
        /\ obs[l].stay = obs[l].ever => Listed(l) = obs[l].ever \cap FileNames

\* a List answered with both stored names while ./archive held a third entry,
\* put there by other means under a name no client can give
C11_Witness ==
    \E l \in Reqs : /\ Returned(l, "list", "OK") /\ Listed(l) = Names
                    /\ obs[l].stay = EntryNames

\* C12: list errors.  A List that found no ./archive and met no failure made the
\* directory and returned 200 with no name in its answer unless a file was stored
\* meanwhile; a List whose directory could not be read, at read_dir or at a
\* later next_entry, returned 500.
C12_ListErrors ==
    \A l \in Reqs : IsDone(l, "list") =>
        /\ (~obs[l].chk /\ obs[l].err = "none") =>
               /\ req[l].status = "OK" /\ dirExists
               /\ Listed(l) \subseteq obs[l].ever
               /\ obs[l].ever = {} => req[l].body = << >>
        /\ obs[l].err \in {"read_dir", "next_entry"} =>
               req[l].status = "INTERNAL_SERVER_ERROR"

\* the part of C12 the server keeps: the absent directory is made and the answer
\* is 200 and empty; a failure of read_dir itself is answered with 500
C12_AbsentAndOpen ==
    \A l \in Reqs : IsDone(l, "list") =>
        /\ (~obs[l].chk /\ obs[l].err = "none" /\ obs[l].ever = {}) =>
               req[l].status = "OK" /\ dirExists /\ req[l].body = << >>
        /\ obs[l].err = "read_dir" => req[l].status = "INTERNAL_SERVER_ERROR"

\* no request outside S has created, written or removed n
NoOther(S, n) ==
    \A q \in Reqs \ S : /\ req[q].kind = "upload" => obs[q].exp[n] = Absent
                        /\ ~(Returned(q, "delete", "OK") /\ req[q].name = n)

\* C13 as stated: last writer wins.  When two Uploads with a field named n, each
\* of at least one chunk, both returned 200, n holds the full content of the one
\* whose chunk write landed last.
C13_LastWriterWins ==
    \A u, v \in Reqs : \A n \in Names :
        ( /\ u # v /\ Returned(u, "upload", "OK") /\ Returned(v, "upload", "OK")
          /\ n \in Wrote(u) \cap Wrote(v) /\ NoOther({u, v}, n)
          /\ obs[u].exp[n] # << >> /\ obs[v].exp[n] # << >>
          /\ n \in obs[u].last )
        => Holds(u, n)

\* C13, amended: same-name uploads.  When two Uploads with a field named n both
\* returned 200, there is one file n, no longer than the longer of the two
\* contents; each of its bytes is, at its position, the byte one of the two
\* requests sent there or a zero fill; and it is the full content of a request
\* when the other neither created nor wrote n after that request's create.
C13_SameNameUploads ==
    \A u, v \in Reqs : \A n \in Names :
        ( /\ u # v /\ Returned(u, "upload", "OK") /\ Returned(v, "upload", "OK")
          /\ n \in Wrote(u) \cap Wrote(v) /\ NoOther({u, v}, n) )
        => LET eu == obs[u].exp[n]
               ev == obs[v].exp[n] IN
           /\ Exists(n)
           /\ Len(Content(n)) <= Max(Len(eu), Len(ev))
           /\ \A i \in 1 .. Len(Content(n)) :
                \/ Content(n)[i] = 0
                \/ i <= Len(eu) /\ Content(n)[i] = eu[i]
                \/ i <= Len(ev) /\ Content(n)[i] = ev[i]
           /\ n \notin obs[u].touched => Content(n) = eu

\* both returned 200, the write that landed last was u's, and the file is
\* neither u's content nor v's: it mixes bytes of both
C13_Witness ==
    \E u, v \in Reqs : \E n \in Names :
        /\ u # v /\ Returned(u, "upload", "OK") /\ Returned(v, "upload", "OK")
        /\ n \in Wrote(u) \cap Wrote(v) /\ n \in obs[u].last
        /\ Exists(n) /\ Content(n) # obs[u].exp[n] /\ Content(n) # obs[v].exp[n]
        /\ \E i, j \in 1 .. Len(Content(n)) :
              /\ i <= Len(obs[u].exp[n]) /\ Content(n)[i] = obs[u].exp[n][i]
              /\ j <= Len(obs[v].exp[n]) /\ Content(n)[j] = obs[v].exp[n][j]

\* the stored files: what each entry of ./archive holds
Stored == [n \in EntryNames |-> IF dirExists /\ dir[n] # 0 THEN inode[dir[n]] ELSE Absent]
StoredNext == [n \in EntryNames |-> IF dirExists' /\ dir'[n] # 0 THEN inode'[dir'[n]]
                                    ELSE Absent]
\* the step is a step of request r's handler
Actor(r) == <<req[r].pc, req[r].off, req[r].body>> # <<req'[r].pc, req'[r].off, req'[r].body>>

\* C14: idempotent listing.  Two Lists that returned 200 with no file created,
\* written or removed since the earlier of them began gave the same set of names.
C14_SameAnswer ==
    \A l, m \in Reqs :
        ( /\ Returned(l, "list", "OK") /\ Returned(m, "list", "OK")
          /\ obs[l].touched = {} /\ obs[m].touched = {} )
        => Listed(l) = Listed(m)

\* C14: a step of a List leaves every stored file as it was
C14_ListChangesNothing ==
    \A l \in Reqs : (Actor(l) /\ req'[l].kind = "list") => StoredNext = Stored

C14_Idempotent == [](C14_SameAnswer) /\ [][C14_ListChangesNothing]_vars

\* two Lists, one after the other, each answered with the two stored names
C14_Witness ==
    \E l, m \in Reqs :
        /\ Returned(l, "list", "OK") /\ Returned(m, "list", "OK") /\ l \in obs[m].after
        /\ obs[l].touched = {} /\ obs[m].touched = {}
        /\ Listed(l) = Names /\ Listed(m) = Names

\* the Upload ended on a failure of a chunk, of a write, or because its client
\* went away
Broken(u) == IsDone(u, "upload") /\ obs[u].err \in {"chunk", "write", "cancel"}

\* C15: no rollback.  When an Upload failed or was abandoned, every file it had
\* created and that no other request has changed since is still an entry of
\* ./archive and holds exactly the bytes the Upload had written to it; a List
\* that began afterwards and returned 200 names it, and a Stream of it that began
\* afterwards is answered 200 with those bytes.
C15_PartialStays ==
    \A u \in Reqs : \A n \in Names :
        (Broken(u) /\ n \in Wrote(u) /\ n \notin obs[u].touched) =>
            /\ Holds(u, n)
            /\ \A l \in Reqs : (Returned(l, "list", "OK") /\ u \in obs[l].after)
                                  => n \in Listed(l)
            /\ \A s \in Reqs : ( /\ IsDone(s, "stream") /\ req[s].name = n
                                 /\ u \in obs[s].after /\ ~obs[s].inj )
                                  => req[s].status = "OK" /\ req[s].body = obs[u].exp[n]

\* C15: no step of an Upload removes an entry of ./archive
C15_UploadRemovesNothing ==
    \A u \in Reqs : (Actor(u) /\ req'[u].kind = "upload") =>
        /\ dirExists => dirExists'
        /\ \A n \in EntryNames : dir[n] # 0 => dir'[n] # 0

C15_NoRollback == [](C15_PartialStays) /\ [][C15_UploadRemovesNothing]_vars

\* an Upload was abandoned after one chunk of a field was written: the file is
\* there with that one chunk, and a later List names it
C15_Witness ==
    \E u, l \in Reqs : \E n \in Names :
        /\ IsDone(u, "upload") /\ obs[u].err = "cancel" /\ req[u].name = n
        /\ obs[u].nch = 1 /\ Len(obs[u].exp[n]) = 1 /\ Holds(u, n)
        /\ Returned(l, "list", "OK") /\ u \in obs[l].after /\ n \in Listed(l)

\* an Upload failed at a chunk after one chunk was written, and a later Stream
\* of the name was answered with that one chunk
C15_WitnessFailed ==
    \E u, s \in Reqs : \E n \in Names :
        /\ IsDone(u, "upload") /\ obs[u].err = "chunk" /\ req[u].name = n
        /\ Len(obs[u].exp[n]) = 1 /\ Holds(u, n)
        /\ Returned(s, "stream", "OK") /\ req[s].name = n /\ u \in obs[s].after
        /\ req[s].body = obs[u].exp[n]

\* the first k bytes request u sends for a field, in the order it sends them
Sent(u, k) == [i \in 1 .. k |-> Tag(u, i)]

\* C16: chunk ordering.  In every state, a file n that an Upload has created and
\* that no other request has created, written or removed since holds the bytes
\* of the chunks received so far for the field, in the order received: a prefix
\* of what the field will be, as long as the handle's offset while the field is
\* being written; when the Upload has returned 200 it is the whole field.
C16_ChunkOrder ==
    \A u \in Reqs : \A n \in Names :
        (req[u].kind = "upload" /\ n \in Wrote(u) /\ n \notin obs[u].touched) =>
            /\ Exists(n)
            /\ \E k \in 0 .. MaxChunks * MaxChunkLen : Content(n) = Sent(u, k)
            /\ (req[u].pc = "chunk" /\ req[u].name = n) =>
                   /\ dir[n] = req[u].fh /\ Len(Content(n)) = req[u].off
                   /\ req[u].off <= obs[u].nch * MaxChunkLen
            /\ req[u].status = "OK" => Content(n) = obs[u].exp[n]

\* an Upload that is still writing a field has written the first of two chunks
C16_Witness ==
    \E u \in Reqs : \E n \in Names :
        /\ req[u].kind = "upload" /\ req[u].pc = "chunk" /\ req[u].name = n
        /\ n \notin obs[u].touched /\ obs[u].nch = 1 /\ MaxChunks > 1
        /\ Exists(n) /\ Content(n) = Sent(u, 1)

\* an Upload returned 200 and its file holds the two chunks in their order
C16_WitnessDone ==
    \E u \in Reqs : \E n \in Names :
        /\ Returned(u, "upload", "OK") /\ n \notin obs[u].touched
        /\ obs[u].nf = 1 /\ obs[u].nch = 2 /\ Exists(n) /\ Content(n) = Sent(u, 2)

\* C17 as stated: upload against delete.  For an Upload with a field named n, of
\* at least one chunk, and a Delete of n that both returned 200: when the
\* Upload's last write landed after the removal, n is stored with the uploaded
\* content; when the removal landed after the Upload's last write, n is absent.
C17_LastLanderWins ==
    \A u, d \in Reqs : \A n \in Names :
        ( /\ Returned(u, "upload", "OK") /\ n \in Wrote(u) /\ obs[u].exp[n] # << >>
          /\ Returned(d, "delete", "OK") /\ req[d].name = n /\ NoOther({u, d}, n) )
        => /\ n \in obs[u].last => Holds(u, n)
           /\ n \in obs[d].last => ~Exists(n)

\* C17, amended: for an Upload with a field named n and a Delete of n that both
\* returned 200: when the removal landed before the Upload created n, n is
\* stored with the uploaded content; when the removal landed after the Upload's
\* last create of n, n is absent, whatever the Upload wrote after the removal.
C17_CreateDecides ==
    \A u, d \in Reqs : \A n \in Names :
        ( /\ Returned(u, "upload", "OK") /\ n \in Wrote(u)
          /\ Returned(d, "delete", "OK") /\ req[d].name = n /\ NoOther({u, d}, n) )
        => /\ n \notin obs[u].touched => Holds(u, n)
           /\ n \in deleted => ~Exists(n)
           /\ n \notin deleted => Holds(u, n)
           /\ (obs[u].nf = 1 /\ n \in obs[u].touched) => n \in deleted

\* the Upload wrote its chunks after the Delete removed n, both returned 200,
\* and n is absent
C17_Witness ==
    \E u, d \in Reqs : \E n \in Names :
        /\ Returned(u, "upload", "OK") /\ n \in Wrote(u) /\ obs[u].nf = 1
        /\ Len(obs[u].exp[n]) = MaxChunks * MaxChunkLen
        /\ Returned(d, "delete", "OK") /\ req[d].name = n
        /\ n \in obs[u].last /\ ~Exists(n)

\* C18: double delete.  Of two Deletes of a stored name n, with no Upload of n,
\* no third remover and no failure brought in by the environment, exactly one
\* returned 200; the other returned 404 when its existence check came after the
\* removal and 500 when its own removal found the file gone; n is absent.
C18_DoubleDelete ==
    \A d, e \in Reqs : \A n \in Names :
        ( /\ d # e /\ IsDone(d, "delete") /\ IsDone(e, "delete")
          /\ req[d].name = n /\ req[e].name = n /\ NoOther({d, e}, n)
          /\ obs[d].chk \/ obs[e].chk
          /\ ~obs[d].inj /\ ~obs[e].inj )
        => /\ (req[d].status = "OK") # (req[e].status = "OK")
           /\ req[d].status # "OK" =>
                 req[d].status = IF obs[d].chk THEN "INTERNAL_SERVER_ERROR" ELSE "NOT_FOUND"
           /\ req[e].status # "OK" =>
                 req[e].status = IF obs[e].chk THEN "INTERNAL_SERVER_ERROR" ELSE "NOT_FOUND"
           /\ ~Exists(n)

\* both Deletes found the file; one removed it and returned 200, the removal of
\* the other failed and it returned 500
C18_Witness ==
    \E d, e \in Reqs : \E n \in Names :
        /\ d # e /\ req[d].name = n /\ req[e].name = n
        /\ obs[d].chk /\ obs[e].chk /\ ~obs[d].inj /\ ~obs[e].inj
        /\ Returned(d, "delete", "OK") /\ Returned(e, "delete", "INTERNAL_SERVER_ERROR")
        /\ ~Exists(n)

\* C19: frame.  A step of a Stream, of a List, or of a Delete other than its
\* successful removal leaves every stored file as it was (a List may make the
\* directory); the removal of a Delete of n that returns 200 makes n absent and
\* leaves every other file as it was; a step of an Upload leaves every file
\* as it was but the one named by the field it is at, which it has created.
C19_FrameStep ==
    \A r \in Reqs : Actor(r) =>
        LET k == req'[r].kind
            removed == k = "delete" /\ req'[r].pc = "done" /\ req'[r].status = "OK"
        IN /\ k \in {"stream", "list"} => StoredNext = Stored
           /\ k = "stream" => dirExists' = dirExists
           /\ (k = "delete" /\ ~removed) => StoredNext = Stored /\ dirExists' = dirExists
           /\ removed => /\ req'[r].name \in Names /\ Stored[req'[r].name] # Absent
                         /\ StoredNext = [Stored EXCEPT ![req'[r].name] = Absent]
                         /\ dirExists' = dirExists
           /\ k = "upload" =>
                 \A n \in EntryNames : StoredNext[n] # Stored[n] =>
                     n = req'[r].name /\ n \in Names /\ obs'[r].exp[n] # Absent

C19_Frame == [][C19_FrameStep]_vars

\* a Delete of one stored name returned 200, another Delete returned 404, and the
\* other stored name holds what it held at the start
C19_Witness ==
    \E d, e \in Reqs : \E n, m \in Names :
        /\ n # m /\ Returned(d, "delete", "OK") /\ req[d].name = n /\ ~Exists(n)
        /\ Returned(e, "delete", "NOT_FOUND")
        /\ Exists(m) /\ Content(m) \in InitContents

=============================================================================
